---- MODULE Spec2Model ----
(***************************************************************************)
(* A model of the nutrition evaluation engine of recommender.py            *)
(* (evaluate_intake and the tables and classifiers it calls) as the API    *)
(* handlers of app.py call it, and of the handlers of app.py that store    *)
(* children and measurements in the tables of models.py.                   *)
(*                                                                         *)
(* Quantities the source holds as floats are held as integers in a finer   *)
(* unit, and every comparison is made by cross-multiplication:             *)
(*   weight_kg            grams                                            *)
(*   height_cm, muac_cm   millimetres                                      *)
(*   total_calories       kcal                                             *)
(*   total_protein        grams                                            *)
(*   protein requirement  1/10000 gram                                     *)
(* muac_cm is optional: <<>> is None, <<m>> is the value m.                *)
(* A date is a record [year, month, day].                                  *)
(* A suggestion is the name of the message template the source appends;    *)
(* Mark gives the symbol its text starts with.                             *)
(***************************************************************************)
EXTENDS Integers, Sequences, FiniteSets, TLC

VARIABLES
    today,           \* the value date.today() returns during the call
    child,           \* the child dict passed to evaluate_intake
    recent_intakes,  \* the list of intake dicts passed to evaluate_intake
    opd_reports,     \* the list of OPD report dicts passed to evaluate_intake
    report,          \* the dict evaluate_intake returned
    pc,              \* "called": the call is pending, "returned": it returned,
                     \* "idle": no call was made yet
    history,         \* the completed calls of evaluate_intake, oldest first
    db,              \* the committed rows of the tables of models.py
    response,        \* the last HTTP response of a handler of app.py
    frames           \* the local variables of the calls of evaluate_intake
                     \* that run concurrently, one frame per thread

vars == <<today, child, recent_intakes, opd_reports, report, pc, history, db,
          response, frames>>

----------------------------------------------------------------------------
(* Bounds of the model *)

MaxIntakes == 2
MaxOpds == 2
MaxCalls == 2
MaxAgeMonths == 130
MaxChildren == 2

----------------------------------------------------------------------------
(* Dates *)

IsLeap(y) == (y % 4 = 0 /\ y % 100 # 0) \/ y % 400 = 0

DaysBeforeMonth(y, m) ==
    LET cum == <<0, 31, 59, 90, 120, 151, 181, 212, 243, 273, 304, 334>>
    IN  cum[m] + (IF m > 2 /\ IsLeap(y) THEN 1 ELSE 0)

\* date.toordinal(): days since 0001-01-01, as the subtraction of two dates uses
Ordinal(d) ==
    LET y == d.year - 1
    IN  365 * y + (y \div 4) - (y \div 100) + (y \div 400)
        + DaysBeforeMonth(d.year, d.month) + d.day

\* (datetime.fromisoformat(a) - datetime.fromisoformat(b)).days
DaysBetween(a, b) == Ordinal(a) - Ordinal(b)

----------------------------------------------------------------------------
(* Age resolver and requirement tables *)

\* calculate_age_in_months with the day correction of the stricter variant
calculate_age_in_monthsDayCorrected(date_of_birth, t) ==
    (t.year - date_of_birth.year) * 12 + (t.month - date_of_birth.month)
    - (IF t.day < date_of_birth.day THEN 1 ELSE 0)

\* calculate_age_in_months reading how many calls were made before
calculate_age_in_monthsCounting(date_of_birth, t) ==
    (t.year - date_of_birth.year) * 12 + (t.month - date_of_birth.month)
    + Len(history)

calculate_age_in_months(date_of_birth, t) ==
    (t.year - date_of_birth.year) * 12 + (t.month - date_of_birth.month)

\* get_calorie_requirements with the first band closed at 6 months
get_calorie_requirementsThrough6(age_months) ==
    IF age_months <= 6 THEN 650
    ELSE IF age_months < 12 THEN 850
    ELSE IF age_months < 24 THEN 1000
    ELSE IF age_months < 36 THEN 1200
    ELSE IF age_months < 60 THEN 1400
    ELSE IF age_months < 84 THEN 1600
    ELSE IF age_months < 120 THEN 1800
    ELSE 2000

get_calorie_requirements(age_months) ==
    IF age_months < 6 THEN 650
    ELSE IF age_months < 12 THEN 850
    ELSE IF age_months < 24 THEN 1000
    ELSE IF age_months < 36 THEN 1200
    ELSE IF age_months < 60 THEN 1400
    ELSE IF age_months < 84 THEN 1600
    ELSE IF age_months < 120 THEN 1800
    ELSE 2000

\* grams per day, the age-based fallback table
ProteinTable(age_months) ==
    IF age_months < 6 THEN 10
    ELSE IF age_months < 12 THEN 14
    ELSE IF age_months < 24 THEN 16
    ELSE IF age_months < 36 THEN 20
    ELSE IF age_months < 60 THEN 24
    ELSE IF age_months < 84 THEN 28
    ELSE IF age_months < 120 THEN 32
    ELSE 40

\* weight_kg is <<>> (None) or <<grams>>; the result is in 1/10000 gram:
\* weight_kg * 1.2 g = grams * 12 / 10000 g.  A weight of 0 is falsy.
get_protein_requirements(age_months, weight_kg) ==
    IF Len(weight_kg) > 0 /\ weight_kg[1] # 0
    THEN weight_kg[1] * 12
    ELSE ProteinTable(age_months) * 10000

----------------------------------------------------------------------------
(* Exact fractions standing for the source's float quotients *)

Frac(n, d) == [num |-> n, den |-> d]

\* f < n/d, f > n/d, f >= n/d for a fraction f and integers n, d with d > 0
FracLT(f, n, d) ==
    IF f.den > 0 THEN f.num * d < n * f.den ELSE f.num * d > n * f.den

FracGT(f, n, d) ==
    IF f.den > 0 THEN f.num * d > n * f.den ELSE f.num * d < n * f.den

FracGE(f, n, d) == ~FracLT(f, n, d)

\* (x / y) * 100 <= 110 as binary64 evaluates it.  11/10 is not a binary64
\* number: a quotient x / y of exactly 11/10 rounds to 1.1000000000000000888,
\* whose product with 100 rounds to 110.00000000000001, and the binary64
\* number just below it gives 109.99999999999999.  No quotient gives a product
\* of exactly 110.0, so the test holds exactly when x / y is below 11/10.
\* (At 7/10, 17/20 and 19/20 the product is exactly 70.0, 85.0 and 95.0.)
PctLE110(f) == FracLT(f, 11, 10)

RECURSIVE GCD(_, _)
GCD(a, b) == IF b = 0 THEN a ELSE GCD(b, a % b)

\* the value of n / d, in lowest terms
Quotient(n, d) ==
    LET g == GCD(n, d) IN IF n = 0 THEN Frac(0, 1) ELSE Frac(n \div g, d \div g)

----------------------------------------------------------------------------
(* Status classifier for the latest measurement *)

\* weight in grams, height in millimetres: kg / m^2 = g * 1000 / mm^2
calculate_bmi(weight_kg, height_cm) ==
    IF height_cm > 0 THEN Frac(weight_kg * 1000, height_cm * height_cm)
    ELSE Frac(0, 1)

\* grams
ExpectedWeight(age_months) ==
    IF age_months < 24 THEN 3500 + age_months * 500
    ELSE IF age_months < 60 THEN 12000 + (age_months - 24) * 200
    ELSE 14000 + (age_months - 60) * 150

\* WeightIssues with each boundary ratio put in the band below it
WeightIssuesBoundaryBelow(weight_ratio) ==
    IF ~FracGT(weight_ratio, 7, 10) THEN <<"severe_underweight">>
    ELSE IF ~FracGT(weight_ratio, 85, 100) THEN <<"underweight">>
    ELSE IF FracGE(weight_ratio, 125, 100) THEN <<"overweight">>
    ELSE <<>>

WeightIssues(weight_ratio) ==
    IF FracLT(weight_ratio, 7, 10) THEN <<"severe_underweight">>
    ELSE IF FracLT(weight_ratio, 85, 100) THEN <<"underweight">>
    ELSE IF FracGT(weight_ratio, 125, 100) THEN <<"overweight">>
    ELSE <<>>

\* MuacIssues with the age window closed at 60 months
MuacIssuesThrough60(age_months, muac_cm) ==
    IF Len(muac_cm) > 0 /\ muac_cm[1] # 0 /\ 6 <= age_months /\ age_months <= 60
    THEN IF muac_cm[1] < 115 THEN <<"severe_acute_malnutrition">>
         ELSE IF muac_cm[1] < 125 THEN <<"moderate_acute_malnutrition">>
         ELSE <<>>
    ELSE <<>>

\* muac_cm is <<>> (None) or <<millimetres>>; None and 0 are falsy
MuacIssues(age_months, muac_cm) ==
    IF Len(muac_cm) > 0 /\ muac_cm[1] # 0 /\ 6 <= age_months /\ age_months < 60
    THEN IF muac_cm[1] < 115 THEN <<"severe_acute_malnutrition">>
         ELSE IF muac_cm[1] < 125 THEN <<"moderate_acute_malnutrition">>
         ELSE <<>>
    ELSE <<>>

BmiIssues(age_months, bmi) ==
    IF age_months >= 24
    THEN IF FracLT(bmi, 14, 1) THEN <<"severely_wasted">>
         ELSE IF FracLT(bmi, 15, 1) THEN <<"wasted">>
         ELSE IF FracGT(bmi, 18, 1) /\ age_months < 60 THEN <<"overweight_bmi">>
         ELSE IF FracGT(bmi, 20, 1) /\ age_months >= 60 THEN <<"overweight_bmi">>
         ELSE <<>>
    ELSE <<>>

\* ExpectedWeight(age_months) # 0 is the caller's to check: the source divides by it
assess_growth_status(age_months, weight_kg, height_cm, muac_cm) ==
    LET bmi == calculate_bmi(weight_kg, height_cm)
        weight_ratio == Frac(weight_kg, ExpectedWeight(age_months))
    IN  [issues |-> WeightIssues(weight_ratio) \o MuacIssues(age_months, muac_cm)
                    \o BmiIssues(age_months, bmi),
         bmi |-> bmi,
         weight_ratio |-> weight_ratio]

Has(issues, x) == \E i \in 1..Len(issues) : issues[i] = x

----------------------------------------------------------------------------
(* Suggestion composer *)

\* the symbol a message template starts with: "critical" the siren, "warning"
\* the warning sign, "check" the check mark, "info" the information sign,
\* "party" the party popper
Mark(s) ==
    CASE s \in {"weight_critical", "muac_severe"} -> "critical"
      [] s \in {"calorie_urgent", "calorie_warning", "calorie_excess",
                "protein_urgent", "protein_warning", "weight_below",
                "weight_above", "muac_moderate", "growth_slow",
                "height_slow"} -> "warning"
      [] s \in {"calorie_approaching", "calorie_met", "protein_adequate",
                "protein_good", "weight_healthy", "growth_good"} -> "check"
      [] s \in {"no_intake", "no_opd", "tip_under_6", "tip_6_12", "tip_1_2",
                "tip_general"} -> "info"
      [] s = "on_track" -> "party"

RECURSIVE SumOf(_, _)
\* sum(i[field] for i in recs)
SumOf(recs, field) ==
    IF recs = <<>> THEN 0 ELSE Head(recs)[field] + SumOf(Tail(recs), field)

\* CalorieMessage with the boundary percentages 70, 85 and 95 put in the band
\* below them
CalorieMessageBoundaryBelow(pct) ==
    IF ~FracGT(pct, 70, 100) THEN "calorie_urgent"
    ELSE IF ~FracGT(pct, 85, 100) THEN "calorie_warning"
    ELSE IF ~FracGT(pct, 95, 100) THEN "calorie_approaching"
    ELSE IF PctLE110(pct) THEN "calorie_met"
    ELSE "calorie_excess"

\* calorie_percentage / 100 = avg_calories / calorie_req
CalorieMessage(pct) ==
    IF FracLT(pct, 70, 100) THEN "calorie_urgent"
    ELSE IF FracLT(pct, 85, 100) THEN "calorie_warning"
    ELSE IF FracLT(pct, 95, 100) THEN "calorie_approaching"
    ELSE IF PctLE110(pct) THEN "calorie_met"
    ELSE "calorie_excess"

\* ProteinMessage with the calorie bands: a message of its own for 85-95
ProteinMessageFiveBands(pct) ==
    IF FracLT(pct, 70, 100) THEN "protein_urgent"
    ELSE IF FracLT(pct, 85, 100) THEN "protein_warning"
    ELSE IF FracLT(pct, 95, 100) THEN "protein_approaching"
    ELSE IF PctLE110(pct) THEN "protein_adequate"
    ELSE "protein_good"

\* protein_percentage / 100 = avg_protein / protein_req
ProteinMessage(pct) ==
    IF FracLT(pct, 70, 100) THEN "protein_urgent"
    ELSE IF FracLT(pct, 85, 100) THEN "protein_warning"
    ELSE IF PctLE110(pct) THEN "protein_adequate"
    ELSE "protein_good"

\* protein_req is in 1/10000 gram
IntakeSuggestions(intakes, calorie_req, protein_req) ==
    IF intakes # <<>>
    THEN LET n == Len(intakes)
             calorie_pct == Frac(SumOf(intakes, "total_calories"), n * calorie_req)
             protein_pct == Frac(SumOf(intakes, "total_protein") * 10000, n * protein_req)
         IN  <<CalorieMessage(calorie_pct), ProteinMessage(protein_pct)>>
    ELSE <<"no_intake">>

WeightMessage(issues) ==
    IF Has(issues, "severe_underweight") THEN "weight_critical"
    ELSE IF Has(issues, "underweight") THEN "weight_below"
    ELSE IF Has(issues, "overweight") \/ Has(issues, "overweight_bmi") THEN "weight_above"
    ELSE "weight_healthy"

MuacSuggestions(issues) ==
    IF Has(issues, "severe_acute_malnutrition") THEN <<"muac_severe">>
    ELSE IF Has(issues, "moderate_acute_malnutrition") THEN <<"muac_moderate">>
    ELSE <<>>

\* ExpectedWeightGain without the band under 12 months
ExpectedWeightGainNoInfantBand(age_months) ==
    IF age_months < 24 THEN 250 ELSE 200

\* grams per month
ExpectedWeightGain(age_months) ==
    IF age_months < 12 THEN 400 ELSE IF age_months < 24 THEN 250 ELSE 200

\* millimetres per month
ExpectedHeightGain(age_months) ==
    IF age_months < 12 THEN 25 ELSE IF age_months < 24 THEN 15 ELSE 7

\* TrendSuggestions normalizing whenever the two dates differ, in either order
TrendSuggestionsAnyDifference(age_months, opds) ==
    IF Len(opds) >= 2
    THEN LET latest_opd == opds[Len(opds)]
             previous_opd == opds[Len(opds) - 1]
             weight_change == latest_opd.weight_kg - previous_opd.weight_kg
             height_change == latest_opd.height_cm - previous_opd.height_cm
             date_diff == DaysBetween(latest_opd.date, previous_opd.date)
         IN  IF date_diff # 0
             THEN LET monthly_weight_gain == Frac(weight_change * 30, date_diff)
                      monthly_height_gain == Frac(height_change * 30, date_diff)
                  IN  (IF FracLT(monthly_weight_gain, ExpectedWeightGain(age_months), 2)
                       THEN <<"growth_slow">>
                       ELSE IF FracGE(monthly_weight_gain,
                                      ExpectedWeightGain(age_months) * 8, 10)
                       THEN <<"growth_good">>
                       ELSE <<>>)
                      \o
                      (IF FracLT(monthly_height_gain, ExpectedHeightGain(age_months), 2)
                          /\ age_months < 60
                       THEN <<"height_slow">>
                       ELSE <<>>)
             ELSE <<>>
    ELSE <<>>

\* months_diff = date_diff / 30, monthly gain = change / months_diff
\*             = change * 30 / date_diff
TrendSuggestions(age_months, opds) ==
    IF Len(opds) >= 2
    THEN LET latest_opd == opds[Len(opds)]
             previous_opd == opds[Len(opds) - 1]
             weight_change == latest_opd.weight_kg - previous_opd.weight_kg
             height_change == latest_opd.height_cm - previous_opd.height_cm
             date_diff == DaysBetween(latest_opd.date, previous_opd.date)
         IN  IF date_diff > 0
             THEN LET monthly_weight_gain == Frac(weight_change * 30, date_diff)
                      monthly_height_gain == Frac(height_change * 30, date_diff)
                  IN  (IF FracLT(monthly_weight_gain, ExpectedWeightGain(age_months), 2)
                       THEN <<"growth_slow">>
                       ELSE IF FracGE(monthly_weight_gain,
                                      ExpectedWeightGain(age_months) * 8, 10)
                       THEN <<"growth_good">>
                       ELSE <<>>)
                      \o
                      (IF FracLT(monthly_height_gain, ExpectedHeightGain(age_months), 2)
                          /\ age_months < 60
                       THEN <<"height_slow">>
                       ELSE <<>>)
             ELSE <<>>
    ELSE <<>>

GrowthSuggestions(age_months, opds) ==
    IF opds # <<>>
    THEN LET latest_opd == opds[Len(opds)]
             g == assess_growth_status(age_months, latest_opd.weight_kg,
                                       latest_opd.height_cm, latest_opd.muac_cm)
         IN  <<WeightMessage(g.issues)>> \o MuacSuggestions(g.issues)
             \o TrendSuggestions(age_months, opds)
    ELSE <<"no_opd">>

\* GeneralTip with the first band closed at 6 months
GeneralTipThrough6(age_months) ==
    IF age_months <= 6 THEN "tip_under_6"
    ELSE IF age_months < 12 THEN "tip_6_12"
    ELSE IF age_months < 24 THEN "tip_1_2"
    ELSE "tip_general"

GeneralTip(age_months) ==
    IF age_months < 6 THEN "tip_under_6"
    ELSE IF age_months < 12 THEN "tip_6_12"
    ELSE IF age_months < 24 THEN "tip_1_2"
    ELSE "tip_general"

\* appended when suggestions is empty or every suggestion holds a check mark
OnTrack(suggestions) ==
    IF suggestions = <<>>
       \/ \A i \in 1..Len(suggestions) : Mark(suggestions[i]) = "check"
    THEN <<"on_track">>
    ELSE <<>>

ZeroDivisionError == [raised |-> "ZeroDivisionError"]

\* t is the date date.today() returns inside calculate_age_in_months
evaluate_intake(c, intakes, opds, t) ==
    LET age_months == calculate_age_in_months(c.date_of_birth, t)
        calorie_req == get_calorie_requirements(age_months)
        protein_req ==
            get_protein_requirements(age_months,
                IF opds # <<>> THEN <<opds[Len(opds)].weight_kg>> ELSE <<>>)
        n == Len(intakes)
        suggestions ==
            IntakeSuggestions(intakes, calorie_req, protein_req)
            \o GrowthSuggestions(age_months, opds)
            \o <<GeneralTip(age_months)>>
    IN  IF opds # <<>> /\ ExpectedWeight(age_months) = 0
        THEN ZeroDivisionError
        ELSE [suggestions |-> suggestions \o OnTrack(suggestions),
              age_months |-> age_months,
              calorie_requirement |-> calorie_req,
              protein_requirement |-> protein_req,
              average_intake |->
                  [calories |-> IF n > 0
                                THEN Quotient(SumOf(intakes, "total_calories"), n)
                                ELSE Frac(0, 1),
                   protein |-> IF n > 0
                               THEN Quotient(SumOf(intakes, "total_protein"), n)
                               ELSE Frac(0, 1)]]

----------------------------------------------------------------------------
(* The calls the model makes.  Weights, heights, dates and intakes are      *)
(* chosen on and next to the thresholds of the classifier, and so that the  *)
(* source's binary64 arithmetic decides every comparison as the exact       *)
(* arithmetic of this module does.                                          *)

Today0 == [year |-> 2025, month |-> 7, day |-> 15]

Ages == {5, 6, 11, 12, 23, 24, 59, 60, 70}

\* a birth date a months before Today0
DobForAge(a) ==
    LET m == Today0.year * 12 + (Today0.month - 1) - a
    IN  [year |-> m \div 12, month |-> (m % 12) + 1, day |-> 10]

Children == {[date_of_birth |-> DobForAge(a), sex |-> "unknown"] : a \in Ages}

Intake(c, p) == [total_calories |-> c, total_protein |-> p]

IntakeRecords ==
    {Intake(c, 20) : c \in {839, 840, 1019, 1020, 1139, 1140, 1320, 1321}}
    \cup {Intake(1200, p) : p \in {13, 14, 16, 17, 19, 22, 23}}

Opd(d, w, h, m) == [date |-> d, weight_kg |-> w, height_cm |-> h, muac_cm |-> m]

Jan01 == [year |-> 2025, month |-> 1, day |-> 1]
Jan31 == [year |-> 2025, month |-> 1, day |-> 31]
Jun30 == [year |-> 2025, month |-> 6, day |-> 30]

\* one measurement, on and around the weight ratio, BMI and MUAC thresholds
SingleOpds ==
    {Opd(Jan01, w, h, m) :
        w \in {8399, 8400, 10199, 10200, 12000, 15000, 15001},
        h \in {800, 900, 1000},
        m \in {<<>>, <<114>>, <<115>>, <<124>>, <<125>>}}

\* measurements of a history: 30, 150 and 180 days apart
TrendOpds ==
    {Opd(d, x[1], x[2], <<>>) :
        d \in {Jan01, Jan31, Jun30},
        x \in {<<6000, 900>>, <<6125, 900>>, <<6200, 910>>, <<6250, 900>>,
               <<6400, 910>>}}

SeqsOfLen(S, lo, hi) == UNION {[1..k -> S] : k \in lo..hi}

\* ORDER BY date ASC: rows of equal date come in either order
DateAscending(opds) ==
    \A i \in 1..(Len(opds) - 1) : Ordinal(opds[i].date) <= Ordinal(opds[i + 1].date)

NoReport == [raised |-> "pending"]

\* the tables children, daily_intakes and opd_reports with no row
EmptyDb == [children |-> {}, daily_intakes |-> {}, opd_reports |-> {}]

NoResponse == [status |-> 0]

\* the arguments of the call are c, intakes and opds
Called(c, intakes, opds) ==
    /\ today = Today0
    /\ child = c
    /\ recent_intakes = intakes
    /\ opd_reports = opds
    /\ report = NoReport
    /\ pc = "called"
    /\ history = <<>>
    /\ db = EmptyDb
    /\ response = NoResponse
    /\ frames = <<>>

IntakeCalls ==
    \E c \in Children, i \in SeqsOfLen(IntakeRecords, 0, MaxIntakes),
       o \in {<<>>, <<Opd(Jan01, 12500, 900, <<>>)>>} :
        Called(c, i, o)

SingleOpdCalls ==
    \E c \in Children, i \in {<<>>, <<Intake(1200, 20)>>}, o \in SingleOpds :
        Called(c, i, <<o>>)

\* the handlers of app.py query the measurements by date
HistoryCalls ==
    \E c \in Children, o \in SeqsOfLen(TrendOpds, 2, MaxOpds) :
        DateAscending(o) /\ Called(c, <<>>, o)

\* evaluate_intake called with the measurement history in any order
AnyOrderHistoryCalls ==
    \E c \in Children, o \in SeqsOfLen(TrendOpds, 2, MaxOpds) :
        Called(c, <<>>, o)

Init == IntakeCalls \/ SingleOpdCalls \/ HistoryCalls

InitAnyOrder == IntakeCalls \/ SingleOpdCalls \/ AnyOrderHistoryCalls

\* a completed call: its arguments, the date it read and what it returned
CallRecord(c, intakes, opds, t, r) ==
    [child |-> c, recent_intakes |-> intakes, opd_reports |-> opds,
     today |-> t, report |-> r]

Evaluate ==
    /\ pc = "called"
    /\ report' = evaluate_intake(child, recent_intakes, opd_reports, today)
    /\ pc' = "returned"
    /\ history' = Append(history,
                     CallRecord(child, recent_intakes, opd_reports, today, report'))
    /\ UNCHANGED <<today, child, recent_intakes, opd_reports, db, response, frames>>

Next == Evaluate

Spec == Init /\ [][Next]_vars

SpecAnyOrder == InitAnyOrder /\ [][Next]_vars

----------------------------------------------------------------------------
(* Calls with any birth date, repeated as the clock advances.  The source  *)
(* checks neither the birth date nor the measurement, so the birth date    *)
(* may lie after the current date.                                         *)

BirthAges == {-8, -7, -1, 0, 5, 6, 11, 12, 23, 24, 35, 36, 59, 60, 83, 84, 119, 120}

\* the date a months before Today0, on day d of its month
BirthDate(a, d) ==
    LET m == Today0.year * 12 + (Today0.month - 1) - a
    IN  [year |-> m \div 12, month |-> (m % 12) + 1, day |-> d]

\* birth days before and after the day of the month of Today0
BirthDates == {BirthDate(a, d) : a \in BirthAges, d \in {10, 20}}

AnyBirthDateCalls ==
    \E b \in BirthDates, i \in {<<>>, <<Intake(1200, 20)>>},
       o \in {<<>>, <<Opd(Jan01, 12000, 900, <<>>)>>} :
        Called([date_of_birth |-> b, sex |-> "unknown"], i, o)

\* the values date.today() takes, in order
ClockDates ==
    <<Today0, [year |-> 2025, month |-> 7, day |-> 16],
      [year |-> 2025, month |-> 8, day |-> 1]>>

\* the system clock reaches the next date
Tick ==
    /\ \E k \in 1..(Len(ClockDates) - 1) :
          today = ClockDates[k] /\ today' = ClockDates[k + 1]
    /\ UNCHANGED <<child, recent_intakes, opd_reports, report, pc, history, db,
                   response, frames>>

\* the caller calls evaluate_intake again with the same arguments
CallAgain ==
    /\ pc = "returned"
    /\ Len(history) < MaxCalls
    /\ pc' = "called"
    /\ report' = NoReport
    /\ UNCHANGED <<today, child, recent_intakes, opd_reports, history, db,
                   response, frames>>

InitCalls == AnyBirthDateCalls

NextCalls == Evaluate \/ CallAgain \/ Tick

SpecCalls == InitCalls /\ [][NextCalls]_vars

----------------------------------------------------------------------------
(* The handlers of app.py on the tables of models.py.  A handler runs as   *)
(* one step: it parses the request, commits its row, queries the rows of   *)
(* the child, calls evaluate_intake and answers.                           *)

\* a request field holding the ISO text of the date d, and one holding text
\* that datetime.fromisoformat refuses
IsoText(d) == [iso |-> d]
NotADate == [text |-> "not-a-date"]

\* datetime.fromisoformat(x) raises ValueError on text that is no date
ParsesAsDate(x) == "iso" \in DOMAIN x

\* the primary key SQLite gives the next row of a table
NextId(rows) ==
    IF rows = {} THEN 1
    ELSE 1 + CHOOSE m \in {r.id : r \in rows} : \A r \in rows : r.id <= m

\* float(data["muac_cm"]) if data.get("muac_cm") else None: 0 and a missing
\* field both give None
ParseMuac(m) == IF Len(m) > 0 /\ m[1] # 0 THEN m ELSE <<>>

\* the lists a query with ORDER BY date can return for the rows S: every row
\* once, the rows of equal date in either order
RECURSIVE OrderByDate(_, _)
OrderByDate(S, descending) ==
    IF S = {} THEN {<<>>}
    ELSE LET first == {r \in S : \A q \in S :
                          IF descending
                          THEN Ordinal(q.date) <= Ordinal(r.date)
                          ELSE Ordinal(q.date) >= Ordinal(r.date)}
         IN  UNION {{<<r>> \o o : o \in OrderByDate(S \ {r}, descending)} :
                       r \in first}

DateDescending(rows) ==
    \A i \in 1..(Len(rows) - 1) : Ordinal(rows[i].date) >= Ordinal(rows[i + 1].date)

FirstRows(rows, n) == SubSeq(rows, 1, IF Len(rows) < n THEN Len(rows) ELSE n)

\* DailyIntake...order_by(date.desc()).limit(14).all(), then [:7]
\* a query that keeps the 14 rows of the limit
IntakeQueriesFourteen(child_id) ==
    {FirstRows(o, 14) :
        o \in OrderByDate({r \in db'.daily_intakes : r.child_id = child_id}, TRUE)}

IntakeQueries(child_id) ==
    {FirstRows(FirstRows(o, 14), 7) :
        o \in OrderByDate({r \in db'.daily_intakes : r.child_id = child_id}, TRUE)}

\* OPDReport...order_by(OPDReport.date.asc()).all()
\* a query with order_by(OPDReport.date.desc())
OpdQueriesDescending(child_id) ==
    OrderByDate({r \in db'.opd_reports : r.child_id = child_id}, TRUE)

OpdQueries(child_id) ==
    OrderByDate({r \in db'.opd_reports : r.child_id = child_id}, FALSE)

\* the handler calls evaluate_intake with the rows it queried after its commit
Recommend(c) ==
    \E i \in IntakeQueries(c.id), o \in OpdQueries(c.id) :
        /\ child' = c
        /\ recent_intakes' = i
        /\ opd_reports' = o
        /\ report' = evaluate_intake(c, i, o, today)
        /\ pc' = "returned"
        /\ history' = Append(history, CallRecord(c, i, o, today, report'))

Answer(handler, status) == response' = [handler |-> handler, status |-> status]

\* POST /api/children
create_child(data) ==
    /\ Cardinality(db.children) < MaxChildren
    /\ IF ParsesAsDate(data.date_of_birth) /\ data.name # <<>>
       THEN /\ db' = [db EXCEPT !.children = @ \cup
                        {[id |-> NextId(@), name |-> data.name,
                          date_of_birth |-> data.date_of_birth.iso,
                          sex |-> data.sex]}]
            /\ Answer("create_child", 201)
       ELSE \* ValueError of fromisoformat or IntegrityError of the commit
            /\ db' = db
            /\ Answer("create_child", 400)
    /\ UNCHANGED <<today, child, recent_intakes, opd_reports, report, pc, history,
                   frames>>

\* POST /api/children/<child_id>/opd
add_opd_and_recommend(child_id, data) ==
    /\ Len(history) < MaxCalls
    /\ IF (\E c \in db.children : c.id = child_id) /\ ParsesAsDate(data.date)
       THEN LET c == CHOOSE x \in db.children : x.id = child_id
                opd == [id |-> NextId(db.opd_reports), child_id |-> child_id,
                        date |-> data.date.iso, weight_kg |-> data.weight_kg,
                        height_cm |-> data.height_cm,
                        muac_cm |-> ParseMuac(data.muac_cm)]
            IN  /\ db' = [db EXCEPT !.opd_reports = @ \cup {opd}]
                /\ Recommend([id |-> c.id, date_of_birth |-> c.date_of_birth,
                              sex |-> c.sex])
                /\ IF "raised" \in DOMAIN report'
                   THEN Answer("add_opd_and_recommend", 400)
                   ELSE Answer("add_opd_and_recommend", 201)
       ELSE \* NotFound of get_or_404 or ValueError of fromisoformat
            /\ db' = db
            /\ Answer("add_opd_and_recommend", 400)
            /\ UNCHANGED <<child, recent_intakes, opd_reports, report, pc, history>>
    /\ UNCHANGED <<today, frames>>

ChildRequests ==
    {[name |-> n, date_of_birth |-> b, sex |-> "unknown"] :
        n \in {<<>>, <<"name">>},
        b \in {IsoText(BirthDate(24, 10)), IsoText(BirthDate(-7, 10)), NotADate}}

\* a plausible measurement, one of weight zero and one of negative height
OpdRequests ==
    {[date |-> d, weight_kg |-> x[1], height_cm |-> x[2], muac_cm |-> <<>>] :
        d \in {IsoText(Jan01), IsoText(Jan31), NotADate},
        x \in {<<12000, 900>>, <<0, 900>>, <<12000, -900>>}}

NoChild == [id |-> 0]

InitApi ==
    /\ today = Today0
    /\ child = NoChild
    /\ recent_intakes = <<>>
    /\ opd_reports = <<>>
    /\ report = NoReport
    /\ pc = "idle"
    /\ history = <<>>
    /\ db = EmptyDb
    /\ response = NoResponse
    /\ frames = <<>>

CreateChild == \E data \in ChildRequests : create_child(data)

AddOpd ==
    \E child_id \in 1..MaxChildren, data \in OpdRequests :
        add_opd_and_recommend(child_id, data)

NextApi == CreateChild \/ AddOpd

SpecApi == InitApi /\ [][NextApi]_vars

----------------------------------------------------------------------------
(* The handlers that add and delete records and the one that evaluates     *)
(* without adding, over the stored children, intakes and measurements.     *)

\* the child the handler passes to evaluate_intake: child.to_dict()
ChildDict(c) == [id |-> c.id, date_of_birth |-> c.date_of_birth, sex |-> c.sex]

\* a table that keeps one row per child and date
StoreIntakeOnePerDate(rows, intake) ==
    {r \in rows : r.child_id # intake.child_id \/ r.date # intake.date}
        \cup {intake}

\* db.session.add(intake); db.session.commit(): the table has no unique
\* constraint on (child_id, date)
StoreIntake(rows, intake) == rows \cup {intake}

\* float(data.get(field, 0.0))
ParseAmount(x) == IF x = <<>> THEN 0 ELSE x[1]

\* POST /api/children/<child_id>/intake
add_intake_and_recommend(child_id, data) ==
    /\ Len(history) < MaxCalls
    /\ IF (\E c \in db.children : c.id = child_id) /\ ParsesAsDate(data.date)
       THEN LET c == CHOOSE x \in db.children : x.id = child_id
                intake == [id |-> NextId(db.daily_intakes), child_id |-> child_id,
                           date |-> data.date.iso,
                           total_calories |-> ParseAmount(data.total_calories),
                           total_protein |-> ParseAmount(data.total_protein)]
            IN  /\ db' = [db EXCEPT !.daily_intakes = StoreIntake(@, intake)]
                /\ Recommend(ChildDict(c))
                /\ IF "raised" \in DOMAIN report'
                   THEN Answer("add_intake_and_recommend", 400)
                   ELSE Answer("add_intake_and_recommend", 201)
       ELSE \* NotFound of get_or_404 or ValueError of fromisoformat
            /\ db' = db
            /\ Answer("add_intake_and_recommend", 400)
            /\ UNCHANGED <<child, recent_intakes, opd_reports, report, pc, history>>
    /\ UNCHANGED <<today, frames>>

\* a relationship without cascade, on a database that does not enforce the
\* foreign key
CascadeNone(rows, child_id) == rows

\* relationship(..., cascade='all, delete-orphan'): the rows of the deleted
\* child are deleted with it
Cascade(rows, child_id) == {r \in rows : r.child_id # child_id}

\* DELETE /api/children/<child_id>
delete_child(child_id) ==
    /\ IF \E c \in db.children : c.id = child_id
       THEN /\ db' = [children |-> {c \in db.children : c.id # child_id},
                      daily_intakes |-> Cascade(db.daily_intakes, child_id),
                      opd_reports |-> Cascade(db.opd_reports, child_id)]
            /\ Answer("delete_child", 200)
       ELSE /\ db' = db
            /\ Answer("delete_child", 400)
    /\ UNCHANGED <<today, child, recent_intakes, opd_reports, report, pc, history,
                   frames>>

\* DELETE /api/children/<child_id>/intake/<intake_id>
delete_intake(child_id, intake_id) ==
    /\ IF \E r \in db.daily_intakes : r.id = intake_id /\ r.child_id = child_id
       THEN /\ db' = [db EXCEPT !.daily_intakes = {r \in @ : r.id # intake_id}]
            /\ Answer("delete_intake", 200)
       ELSE /\ db' = db
            /\ Answer("delete_intake", 400)
    /\ UNCHANGED <<today, child, recent_intakes, opd_reports, report, pc, history,
                   frames>>

\* DELETE /api/children/<child_id>/opd/<opd_id>
delete_opd(child_id, opd_id) ==
    /\ IF \E r \in db.opd_reports : r.id = opd_id /\ r.child_id = child_id
       THEN /\ db' = [db EXCEPT !.opd_reports = {r \in @ : r.id # opd_id}]
            /\ Answer("delete_opd", 200)
       ELSE /\ db' = db
            /\ Answer("delete_opd", 400)
    /\ UNCHANGED <<today, child, recent_intakes, opd_reports, report, pc, history,
                   frames>>

\* a handler that answers with the report of the evaluation before this one
recommendCached(child_id) ==
    /\ Len(history) < MaxCalls
    /\ IF \E c \in db.children : c.id = child_id
       THEN LET c == CHOOSE x \in db.children : x.id = child_id
            IN  /\ db' = db
                /\ \E i \in IntakeQueries(child_id), o \in OpdQueries(child_id) :
                    /\ child' = ChildDict(c)
                    /\ recent_intakes' = i
                    /\ opd_reports' = o
                    /\ report' = IF history = <<>>
                                 THEN evaluate_intake(ChildDict(c), i, o, today)
                                 ELSE history[Len(history)].report
                    /\ pc' = "returned"
                    /\ history' = Append(history,
                                         CallRecord(ChildDict(c), i, o, today, report'))
                /\ IF "raised" \in DOMAIN report'
                   THEN Answer("recommend", 400)
                   ELSE Answer("recommend", 200)
       ELSE /\ db' = db
            /\ Answer("recommend", 400)
            /\ UNCHANGED <<child, recent_intakes, opd_reports, report, pc, history>>
    /\ UNCHANGED <<today, frames>>

\* GET /api/children/<child_id>/recommend
recommend(child_id) ==
    /\ Len(history) < MaxCalls
    /\ IF \E c \in db.children : c.id = child_id
       THEN LET c == CHOOSE x \in db.children : x.id = child_id
            IN  /\ db' = db
                /\ Recommend(ChildDict(c))
                /\ IF "raised" \in DOMAIN report'
                   THEN Answer("recommend", 400)
                   ELSE Answer("recommend", 200)
       ELSE \* NotFound of get_or_404
            /\ db' = db
            /\ Answer("recommend", 400)
            /\ UNCHANGED <<child, recent_intakes, opd_reports, report, pc, history>>
    /\ UNCHANGED <<today, frames>>

ChildIds == 1..MaxChildren

\* the keys of the rows a request can name
RowIds == 1..MaxCalls

\* requests that create and delete: one child, one intake and one
\* measurement, under every child id and row id
RecordChildRequests ==
    {[name |-> <<"name">>, date_of_birth |-> IsoText(BirthDate(24, 10)),
      sex |-> "unknown"]}

RecordIntakeRequests ==
    {[date |-> IsoText(Jan01), total_calories |-> <<1000>>, total_protein |-> <<20>>]}

RecordOpdRequests ==
    {[date |-> IsoText(Jan01), weight_kg |-> 12000, height_cm |-> 900,
      muac_cm |-> <<>>]}

CreateRecordChild == \E data \in RecordChildRequests : create_child(data)

AddRecordIntake ==
    \E child_id \in ChildIds, data \in RecordIntakeRequests :
        add_intake_and_recommend(child_id, data)

AddRecordOpd ==
    \E child_id \in ChildIds, data \in RecordOpdRequests :
        add_opd_and_recommend(child_id, data)

DeleteChild == \E child_id \in ChildIds : delete_child(child_id)

DeleteIntake ==
    \E child_id \in ChildIds, intake_id \in RowIds : delete_intake(child_id, intake_id)

DeleteOpd ==
    \E child_id \in ChildIds, opd_id \in RowIds : delete_opd(child_id, opd_id)

NextRecords ==
    \/ CreateRecordChild
    \/ AddRecordIntake
    \/ AddRecordOpd
    \/ DeleteChild
    \/ DeleteIntake
    \/ DeleteOpd

SpecRecords == InitApi /\ [][NextRecords]_vars

\* requests that evaluate: a child of 24 months and one born 7 months after
\* the current date, intakes of one date and measurements of two
EvaluationChildRequests ==
    {[name |-> <<"name">>, date_of_birth |-> IsoText(BirthDate(a, 10)),
      sex |-> "unknown"] : a \in {24, -7}}

IntakeRequests ==
    {[date |-> IsoText(Jan01), total_calories |-> c, total_protein |-> <<20>>] :
        c \in {<<1000>>, <<1400>>}}
    \cup {[date |-> NotADate, total_calories |-> <<1000>>, total_protein |-> <<20>>]}

EvaluationOpdRequests ==
    {[date |-> IsoText(d), weight_kg |-> 12000, height_cm |-> 900,
      muac_cm |-> <<>>] : d \in {Jan01, Jan31}}

CreateEvaluationChild == \E data \in EvaluationChildRequests : create_child(data)

AddIntake ==
    \E child_id \in ChildIds, data \in IntakeRequests :
        add_intake_and_recommend(child_id, data)

AddEvaluationOpd ==
    \E child_id \in ChildIds, data \in EvaluationOpdRequests :
        add_opd_and_recommend(child_id, data)

GetRecommend == \E child_id \in ChildIds : recommend(child_id)

NextEvaluations ==
    \/ CreateEvaluationChild
    \/ AddIntake
    \/ AddEvaluationOpd
    \/ GetRecommend

SpecEvaluations == InitApi /\ [][NextEvaluations]_vars

\* the greatest number of intake rows the first child has at the start
MaxStored == 8

\* the intake row of key i: the dates of the keys 1, 2, 3, ... are the 4th,
\* 7th, 10th, 2nd, 5th, 8th, 11th, 3rd, ... of January, no two the same
StoredIntake(i, child_id, day) ==
    [id |-> i, child_id |-> child_id,
     date |-> [year |-> 2025, month |-> 1, day |-> day],
     total_calories |-> 1000 + 10 * i, total_protein |-> 20]

\* the tables after two children were created, n intakes were posted for the
\* first and m for the second, the latter with the latest dates
StoredDb(n, m) ==
    [children |->
        {[id |-> 1, name |-> <<"name">>, date_of_birth |-> BirthDate(24, 10),
          sex |-> "unknown"],
         [id |-> 2, name |-> <<"name">>, date_of_birth |-> BirthDate(5, 10),
          sex |-> "unknown"]},
     daily_intakes |->
        {StoredIntake(i, 1, ((3 * i) % 11) + 1) : i \in 1..n}
            \cup {StoredIntake(n + j, 2, 19 + j) : j \in 1..m},
     opd_reports |-> {}]

InitWindow ==
    /\ today = Today0
    /\ child = NoChild
    /\ recent_intakes = <<>>
    /\ opd_reports = <<>>
    /\ report = NoReport
    /\ pc = "idle"
    /\ history = <<>>
    /\ \E n \in (MaxStored - 2)..MaxStored, m \in {0, 2} : db = StoredDb(n, m)
    /\ response = NoResponse
    /\ frames = <<>>

\* an intake older than every stored one and one later than every stored one
WindowIntakeRequests ==
    {[date |-> IsoText(d), total_calories |-> <<1000>>, total_protein |-> <<20>>] :
        d \in {Jan01, Jan31}}

AddWindowIntake ==
    \E child_id \in {1, 2}, data \in WindowIntakeRequests :
        add_intake_and_recommend(child_id, data)

AddWindowOpd ==
    \E child_id \in {1, 2}, data \in RecordOpdRequests :
        add_opd_and_recommend(child_id, data)

\* the rows of the 10th and of the 2nd of January
DeleteWindowIntake == \E intake_id \in {3, 4} : delete_intake(1, intake_id)

WindowRecommend == \E child_id \in {1, 2} : recommend(child_id)

NextWindow ==
    \/ AddWindowIntake
    \/ AddWindowOpd
    \/ DeleteWindowIntake
    \/ WindowRecommend

SpecWindow == InitWindow /\ [][NextWindow]_vars

----------------------------------------------------------------------------
(* Two calls of evaluate_intake for different children in two threads of   *)
(* the server.  Each call runs the blocks of the function in order on its  *)
(* own frame, and the threads interleave between the blocks.               *)

Threads == {1, 2}

\* the locals of a call that has not run yet
Frame(c, intakes, opds) ==
    [child |-> c, recent_intakes |-> intakes, opd_reports |-> opds,
     pc |-> "start", age_months |-> 0, suggestions |-> <<>>, report |-> NoReport]

\* a list `suggestions` that is one object of the module, read by every call
SuggestionsOfShared(t) == frames[1].suggestions

\* the list `suggestions` of the call of thread t: a local of that call
SuggestionsOf(t) == frames[t].suggestions

\* what the caller of thread t passes as the latest weight
FrameWeight(t) ==
    IF frames[t].opd_reports # <<>>
    THEN <<frames[t].opd_reports[Len(frames[t].opd_reports)].weight_kg>>
    ELSE <<>>

FrameRest == <<today, child, recent_intakes, opd_reports, report, pc, history, db,
               response>>

\* suggestions = [] and age_months = calculate_age_in_months(...)
ReadAge(t) ==
    /\ frames[t].pc = "start"
    /\ frames' = [frames EXCEPT
           ![t].age_months = calculate_age_in_months(frames[t].child.date_of_birth, today),
           ![t].suggestions = <<>>,
           ![t].pc = "intake"]
    /\ UNCHANGED FrameRest

\* the block "Analyze recent intake"
AnalyzeIntake(t) ==
    /\ frames[t].pc = "intake"
    /\ frames' = [frames EXCEPT
           ![t].suggestions = SuggestionsOf(t) \o
               IntakeSuggestions(frames[t].recent_intakes,
                   get_calorie_requirements(frames[t].age_months),
                   get_protein_requirements(frames[t].age_months, FrameWeight(t))),
           ![t].pc = "growth"]
    /\ UNCHANGED FrameRest

\* the block "Growth assessment"; the division by an expected weight of 0
\* ends the call with ZeroDivisionError
AssessGrowth(t) ==
    /\ frames[t].pc = "growth"
    /\ IF frames[t].opd_reports # <<>> /\ ExpectedWeight(frames[t].age_months) = 0
       THEN frames' = [frames EXCEPT ![t].report = ZeroDivisionError,
                                     ![t].pc = "done"]
       ELSE frames' = [frames EXCEPT
                ![t].suggestions = SuggestionsOf(t) \o
                    GrowthSuggestions(frames[t].age_months, frames[t].opd_reports),
                ![t].pc = "tips"]
    /\ UNCHANGED FrameRest

\* the blocks "General dietary recommendations" and "If no issues found"
AddTips(t) ==
    /\ frames[t].pc = "tips"
    /\ LET s == SuggestionsOf(t) \o <<GeneralTip(frames[t].age_months)>>
       IN  frames' = [frames EXCEPT ![t].suggestions = s \o OnTrack(s),
                                    ![t].pc = "return"]
    /\ UNCHANGED FrameRest

\* the return statement
Return(t) ==
    /\ frames[t].pc = "return"
    /\ LET f == frames[t]
           n == Len(f.recent_intakes)
       IN  frames' = [frames EXCEPT
               ![t].report =
                   [suggestions |-> SuggestionsOf(t),
                    age_months |-> f.age_months,
                    calorie_requirement |-> get_calorie_requirements(f.age_months),
                    protein_requirement |->
                        get_protein_requirements(f.age_months, FrameWeight(t)),
                    average_intake |->
                        [calories |-> IF n > 0
                                      THEN Quotient(SumOf(f.recent_intakes, "total_calories"), n)
                                      ELSE Frac(0, 1),
                         protein |-> IF n > 0
                                     THEN Quotient(SumOf(f.recent_intakes, "total_protein"), n)
                                     ELSE Frac(0, 1)]],
               ![t].pc = "done"]
    /\ UNCHANGED FrameRest

\* the arguments of the concurrent calls: children of 5 and 24 months and
\* one born 7 months after the current date
ConcurrentCalls ==
    {Frame([date_of_birth |-> BirthDate(a, 10), sex |-> "unknown"], i, o) :
        a \in {5, 24, -7},
        i \in {<<>>, <<Intake(1200, 20)>>},
        o \in {<<>>, <<Opd(Jan01, 12000, 900, <<>>)>>}}

InitConcurrent ==
    /\ today = Today0
    /\ child = NoChild
    /\ recent_intakes = <<>>
    /\ opd_reports = <<>>
    /\ report = NoReport
    /\ pc = "idle"
    /\ history = <<>>
    /\ db = EmptyDb
    /\ response = NoResponse
    /\ \E f1 \in ConcurrentCalls, f2 \in ConcurrentCalls :
        /\ f1.child # f2.child
        /\ frames = <<f1, f2>>

NextConcurrent ==
    \E t \in Threads :
        ReadAge(t) \/ AnalyzeIntake(t) \/ AssessGrowth(t) \/ AddTips(t) \/ Return(t)

SpecConcurrent == InitConcurrent /\ [][NextConcurrent]_vars

----------------------------------------------------------------------------
(* The ingestion of a CSV file of survey records into the table            *)
(* child_records of the dashboard database.  A data frame is the sequence  *)
(* of its rows; NaN, None and NULL are <<>>.                               *)

\* the greatest number of rows of child_records
MaxRecords == 3

\* a row of the file: the age as read (<<>> when it is not a number), the
\* weight in grams and the height in millimetres
CsvRow(age, w, h, st) ==
    [child_id |-> "c", age_months |-> age, sex |-> "F", weight_kg |-> w,
     height_cm |-> h, district |-> "d", state |-> st,
     record_date |-> IsoText(Jan01)]

CsvRows ==
    {CsvRow(age, m[1], m[2], st) :
        age \in {<<24>>, <<>>},
        m \in {<< <<8000>>, <<800>> >>, << <<12000>>, <<900>> >>,
               << <<>>, <<550>> >>},
        st \in {"Bihar", "Kerala"}}

CsvFiles == SeqsOfLen(CsvRows, 1, 2)

\* age_months: to_numeric(errors='coerce').fillna(0).astype(int); weight and
\* height stay NaN when they are not numbers; the date becomes its ISO text
clean_and_normalize(df) ==
    [i \in DOMAIN df |->
        [df[i] EXCEPT !.age_months = IF @ = <<>> THEN 0 ELSE @[1],
                      !.record_date = @.iso]]

\* np.where(condition, 1, 0): a comparison with NaN is false
simple_indicators(df) ==
    [i \in DOMAIN df |->
        LET r == df[i]
            bmi == IF r.weight_kg # <<>> /\ r.height_cm # <<>>
                   THEN <<calculate_bmi(r.weight_kg[1], r.height_cm[1])>>
                   ELSE <<>>
        IN  [child_id |-> r.child_id, age_months |-> r.age_months, sex |-> r.sex,
             weight_kg |-> r.weight_kg, height_cm |-> r.height_cm,
             district |-> r.district, state |-> r.state,
             record_date |-> r.record_date,
             height_m |-> r.height_cm,
             bmi |-> bmi,
             wasted |-> IF bmi # <<>> /\ FracLT(bmi[1], 27, 2) THEN 1 ELSE 0,
             underweight |->
                 IF r.weight_kg # <<>> /\ r.weight_kg[1] < 10000 THEN 1 ELSE 0,
             stunted |->
                 IF r.height_cm # <<>> /\ r.height_cm[1] < r.age_months * 5 + 500
                 THEN 1 ELSE 0]]

\* df[keep_cols].to_sql('child_records', if_exists='append'): the columns
\* that are not written are NULL, id is the next key of the table
load_to_db(df) ==
    db' = [db EXCEPT !.child_records = @ \cup
              {[id |-> NextId(@) + i - 1,
                child_id |-> df[i].child_id, age_months |-> df[i].age_months,
                sex |-> df[i].sex, weight_kg |-> df[i].weight_kg,
                height_cm |-> df[i].height_cm, district |-> df[i].district,
                state |-> df[i].state, record_date |-> df[i].record_date,
                wasted |-> <<>>, underweight |-> <<>>, stunted |-> <<>>] :
                  i \in DOMAIN df}]

\* the data frame of the last ingestion, after simple_indicators
ingest_csv(path) ==
    /\ Cardinality(db.child_records) + Len(path) <= MaxRecords
    /\ LET dfc == clean_and_normalize(path)
           dfi == simple_indicators(dfc)
       IN  /\ load_to_db(dfi)
           /\ response' = [handler |-> "ingest_csv", status |-> Len(dfi),
                           first_id |-> NextId(db.child_records), dfi |-> dfi]
    /\ UNCHANGED <<today, child, recent_intakes, opd_reports, report, pc, history,
                   frames>>

\* the database after init_db
InitIngest ==
    /\ today = Today0
    /\ child = NoChild
    /\ recent_intakes = <<>>
    /\ opd_reports = <<>>
    /\ report = NoReport
    /\ pc = "idle"
    /\ history = <<>>
    /\ db = [child_records |-> {}]
    /\ response = NoResponse
    /\ frames = <<>>

NextIngest == \E path \in CsvFiles : ingest_csv(path)

SpecIngest == InitIngest /\ [][NextIngest]_vars

----------------------------------------------------------------------------
(* Properties *)

Returned == pc = "returned" /\ "suggestions" \in DOMAIN report

age_now == calculate_age_in_months(child.date_of_birth, today)

Count(seq, S) == Cardinality({i \in 1..Len(seq) : seq[i] \in S})

\* C1: evaluate_intake called with an empty intake list and an empty
\* measurement list returns a report whose status is no_data, whose score is
\* null, and whose suggestions are non-empty and contain the no-data guidance.
C1_EmptyCallIsNoData ==
    (Returned /\ recent_intakes = <<>> /\ opd_reports = <<>>) =>
        /\ "status" \in DOMAIN report
        /\ report.status = "no_data"
        /\ "score" \in DOMAIN report
        /\ report.score = "null"
        /\ report.suggestions # <<>>
        /\ Has(report.suggestions, "no_intake")

\* how urgent a message is: critical and emergency messages, then warnings,
\* then affirmations, then informational tips
Urgency(s) ==
    CASE Mark(s) = "critical" -> 3
      [] Mark(s) = "warning" -> 2
      [] Mark(s) \in {"check", "party"} -> 1
      [] Mark(s) = "info" -> 0

\* C2: the suggestions of every report are ordered most urgent first: no
\* message of a less severe finding precedes a message of a more severe one.
C2_MostUrgentFirst ==
    Returned =>
        \A i, j \in 1..Len(report.suggestions) :
            i < j => Urgency(report.suggestions[i]) >= Urgency(report.suggestions[j])

\* no adverse finding: calories met, protein adequate, weight healthy (or no
\* measurement), no MUAC finding, no slow growth
NoAdverseFinding ==
    /\ Has(report.suggestions, "calorie_met")
    /\ Has(report.suggestions, "protein_adequate")
    /\ Has(report.suggestions, "weight_healthy")
    /\ ~Has(report.suggestions, "muac_severe")
    /\ ~Has(report.suggestions, "muac_moderate")
    /\ ~Has(report.suggestions, "growth_slow")
    /\ ~Has(report.suggestions, "height_slow")

\* C3: whenever evaluate_intake produces no adverse finding, the suggestions
\* contain the single affirming "on track" message.
C3_OnTrackWhenNoAdverseFinding ==
    (Returned /\ NoAdverseFinding) => Count(report.suggestions, {"on_track"}) = 1

\* the rank of the most severe finding a report's messages convey, in the order
\* severe_acute_malnutrition (4) > severe_underweight / weight_loss (3) >
\* moderate_malnutrition / under_intake (2) > at_risk / slow_growth (1) >
\* normal / met (0)
MostSevereRank(sugg) ==
    IF Has(sugg, "muac_severe") THEN 4
    ELSE IF Has(sugg, "weight_critical") THEN 3
    ELSE IF Has(sugg, "muac_moderate") \/ Has(sugg, "weight_below")
            \/ Has(sugg, "calorie_urgent") \/ Has(sugg, "calorie_warning")
            \/ Has(sugg, "protein_urgent") \/ Has(sugg, "protein_warning") THEN 2
    ELSE IF Has(sugg, "growth_slow") \/ Has(sugg, "height_slow") THEN 1
    ELSE 0

StatusNames(rank) ==
    CASE rank = 4 -> {"severe_acute_malnutrition"}
      [] rank = 3 -> {"severe_underweight", "weight_loss"}
      [] rank = 2 -> {"moderate_malnutrition", "under_intake"}
      [] rank = 1 -> {"at_risk", "slow_growth"}
      [] rank = 0 -> {"normal", "met"}

\* C4: every report carries an overall status equal to the single most severe
\* finding among the intake, growth-trend and latest-measurement findings.
C4_StatusIsMostSevereFinding ==
    Returned =>
        /\ "status" \in DOMAIN report
        /\ report.status \in StatusNames(MostSevereRank(report.suggestions))

\* the band of x / y as a percentage, each boundary belonging to the band above
\* it: 100 * x / y < 70, 70 <= .. < 85, 85 <= .. < 95, 95 <= .. < 110, 110 <= ..
FiveBands(x, y) ==
    IF 100 * x < 70 * y THEN "urgent"
    ELSE IF 100 * x < 85 * y THEN "warning"
    ELSE IF 100 * x < 95 * y THEN "approaching_target"
    ELSE IF 100 * x < 110 * y THEN "met"
    ELSE "excess"

total_calories == SumOf(recent_intakes, "total_calories")

\* Len(recent_intakes) * calorie requirement: mean calories / requirement is
\* total_calories / calorie_base
calorie_base == Len(recent_intakes) * report.calorie_requirement

\* C5: a calorie percentage exactly on a band boundary (70, 85, 95 or 110
\* percent of the requirement) is classified into the band whose lower bound
\* it is, at every one of the four boundaries: the calorie message is the one
\* of the band FiveBands gives.
C5_CalorieBandsLowerInclusive ==
    (Returned /\ recent_intakes # <<>>) =>
        report.suggestions[1] =
            (CASE FiveBands(total_calories, calorie_base) = "urgent" -> "calorie_urgent"
               [] FiveBands(total_calories, calorie_base) = "warning" -> "calorie_warning"
               [] FiveBands(total_calories, calorie_base) = "approaching_target"
                      -> "calorie_approaching"
               [] FiveBands(total_calories, calorie_base) = "met" -> "calorie_met"
               [] FiveBands(total_calories, calorie_base) = "excess" -> "calorie_excess")

\* a mean of exactly 110 percent of the requirement was classified as excess
C5_Witness ==
    /\ Returned
    /\ recent_intakes # <<>>
    /\ 100 * total_calories = 110 * calorie_base
    /\ report.suggestions[1] = "calorie_excess"

\* mean protein / requirement is total_protein / protein_base (the requirement
\* is held in 1/10000 gram)
total_protein == SumOf(recent_intakes, "total_protein") * 10000

protein_base == Len(recent_intakes) * report.protein_requirement

\* C6 as stated: protein percentage is classified with the same five bands and
\* thresholds as calorie percentage, so one in 85-95 (approaching_target) is
\* told from one in 95-110 (met).
C6_ProteinFiveBands ==
    (Returned /\ recent_intakes # <<>>) =>
        report.suggestions[2] =
            (CASE FiveBands(total_protein, protein_base) = "urgent" -> "protein_urgent"
               [] FiveBands(total_protein, protein_base) = "warning" -> "protein_warning"
               [] FiveBands(total_protein, protein_base) = "approaching_target"
                      -> "protein_approaching"
               [] FiveBands(total_protein, protein_base) = "met" -> "protein_adequate"
               [] FiveBands(total_protein, protein_base) = "excess" -> "protein_good")

\* C6 as amended: protein percentage is classified with four bands, below 70
\* urgent, 70-85 warning, 85-110 adequate, from 110 good; 85-95 and 95-110 get
\* the same message.
C6_ProteinFourBands ==
    (Returned /\ recent_intakes # <<>>) =>
        report.suggestions[2] =
            (IF 100 * total_protein < 70 * protein_base THEN "protein_urgent"
             ELSE IF 100 * total_protein < 85 * protein_base THEN "protein_warning"
             ELSE IF 100 * total_protein < 110 * protein_base THEN "protein_adequate"
             ELSE "protein_good")

\* a protein percentage in 85-95 was classified as adequate
C6_Witness ==
    /\ Returned
    /\ recent_intakes # <<>>
    /\ 100 * total_protein >= 85 * protein_base
    /\ 100 * total_protein < 95 * protein_base
    /\ report.suggestions[2] = "protein_adequate"

latest == opd_reports[Len(opd_reports)]

previous == opd_reports[Len(opd_reports) - 1]

latest_issues ==
    assess_growth_status(age_now, latest.weight_kg, latest.height_cm,
                         latest.muac_cm).issues

MuacBelow(mm) == latest.muac_cm # <<>> /\ latest.muac_cm[1] < mm

\* C7: for the latest measurement a MUAC below 11.5 cm yields
\* severe_acute_malnutrition and one in [11.5, 12.5) yields
\* moderate_acute_malnutrition, but only when 6 <= age_months < 60; outside
\* that window, or with MUAC absent, there is no MUAC finding and no MUAC
\* message.
C7_MuacOnlyInAgeWindow ==
    (Returned /\ opd_reports # <<>>) =>
        LET in_window == 6 <= age_now /\ age_now < 60
            severe == in_window /\ MuacBelow(115)
            moderate == in_window /\ ~MuacBelow(115) /\ MuacBelow(125)
        IN  /\ severe <=> Has(latest_issues, "severe_acute_malnutrition")
            /\ severe <=> Has(report.suggestions, "muac_severe")
            /\ moderate <=> Has(latest_issues, "moderate_acute_malnutrition")
            /\ moderate <=> Has(report.suggestions, "muac_moderate")

\* a MUAC of 11.4 cm at 70 months gave no MUAC message
C7_Witness ==
    /\ Returned
    /\ opd_reports # <<>>
    /\ age_now = 70
    /\ latest.muac_cm = <<114>>
    /\ Count(report.suggestions, {"muac_severe", "muac_moderate"}) = 0

Reorderings(seq) ==
    {[i \in 1..Len(seq) |-> seq[f[i]]] :
        f \in {g \in [1..Len(seq) -> 1..Len(seq)] :
                  \A i, j \in 1..Len(seq) : g[i] = g[j] => i = j}}

\* C8: evaluate_intake accepts the measurement history in any order: the
\* report is the same for every permutation of the same measurement list.
C8_SameReportInAnyOrder ==
    Returned =>
        \A p \in Reorderings(opd_reports) :
            evaluate_intake(child, recent_intakes, p, today) = report

\* grams per month: 0.4 kg under 12 months, 0.25 kg for 12-23, 0.2 kg from 24
C9_ExpectedGain ==
    IF age_now < 12 THEN 400 ELSE IF age_now < 24 THEN 250 ELSE 200

days_apart == DaysBetween(latest.date, previous.date)

weight_gained == latest.weight_kg - previous.weight_kg

\* C9: with two or more measurements whose two most recent dates differ, the
\* monthly weight gain (gain * 30 / days) below 50% of the age band's expected
\* gain yields the slow-growth finding, at least 80% the good-growth finding,
\* anything between neither; a gain of exactly the expected amount over 30
\* days is good growth.  The handlers pass the history in date order, so the
\* two most recent measurements are the last two.
C9_GrowthTrendThresholds ==
    (Returned /\ Len(opd_reports) >= 2 /\ days_apart # 0) =>
        /\ Has(report.suggestions, "growth_slow")
               <=> 2 * weight_gained * 30 < C9_ExpectedGain * days_apart
        /\ Has(report.suggestions, "growth_good")
               <=> 10 * weight_gained * 30 >= 8 * C9_ExpectedGain * days_apart
        /\ (days_apart = 30 /\ weight_gained = C9_ExpectedGain)
               => (Has(report.suggestions, "growth_good")
                   /\ ~Has(report.suggestions, "growth_slow"))

\* exactly the expected monthly gain over 30 days was found good growth
C9_Witness ==
    /\ Returned
    /\ Len(opd_reports) >= 2
    /\ days_apart = 30
    /\ weight_gained = C9_ExpectedGain
    /\ Has(report.suggestions, "growth_good")

WeightMessages == {"weight_critical", "weight_below", "weight_above", "weight_healthy"}

\* C10: for the latest measurement, weight / expected weight is classified
\* severe below 0.70, moderate (underweight) in [0.70, 0.85), overweight above
\* 1.25 and healthy otherwise, and exactly one weight-status message is
\* emitted per evaluation that has at least one measurement.
C10_WeightForAgeBands ==
    (Returned /\ opd_reports # <<>>) =>
        LET w == latest.weight_kg
            e == ExpectedWeight(age_now)
            severe == 100 * w < 70 * e
            moderate == ~severe /\ 100 * w < 85 * e
            over == 100 * w > 125 * e
        IN  /\ severe <=> Has(latest_issues, "severe_underweight")
            /\ moderate <=> Has(latest_issues, "underweight")
            /\ over <=> Has(latest_issues, "overweight")
            /\ Count(report.suggestions, WeightMessages) = 1
            /\ severe <=> Has(report.suggestions, "weight_critical")
            /\ moderate <=> Has(report.suggestions, "weight_below")
            /\ over => Has(report.suggestions, "weight_above")
            /\ Has(report.suggestions, "weight_healthy") => ~(severe \/ moderate \/ over)

\* a ratio of exactly 0.70 was classified moderate, with the below-range message
C10_Witness ==
    /\ Returned
    /\ opd_reports # <<>>
    /\ 100 * latest.weight_kg = 70 * ExpectedWeight(age_now)
    /\ Has(latest_issues, "underweight")
    /\ Has(report.suggestions, "weight_below")

\* the messages of evaluate_intake that are written for an issue of
\* assess_growth_status
Rendering(issue) ==
    CASE issue = "severe_underweight" -> {"weight_critical"}
      [] issue = "underweight" -> {"weight_below"}
      [] issue \in {"overweight", "overweight_bmi"} -> {"weight_above"}
      [] issue = "severe_acute_malnutrition" -> {"muac_severe"}
      [] issue = "moderate_acute_malnutrition" -> {"muac_moderate"}
      [] OTHER -> {}

\* C11: every finding the classifier produces for the latest measurement,
\* the BMI-derived wasting findings included, is rendered into at least one
\* suggestion; no finding is computed and then dropped from the report.
C11_EveryFindingRendered ==
    (Returned /\ opd_reports # <<>>) =>
        \A i \in 1..Len(latest_issues) :
            \E j \in 1..Len(report.suggestions) :
                report.suggestions[j] \in Rendering(latest_issues[i])

\* the completed calls of evaluate_intake that returned a report
Reports == {i \in DOMAIN history : "suggestions" \in DOMAIN history[i].report}

\* the age bands of the requirement tables
AgeBand(a) ==
    IF a < 6 THEN 1 ELSE IF a < 12 THEN 2 ELSE IF a < 24 THEN 3
    ELSE IF a < 36 THEN 4 ELSE IF a < 60 THEN 5 ELSE IF a < 84 THEN 6
    ELSE IF a < 120 THEN 7 ELSE 8

\* C12: get_calorie_requirements and, when no weight is supplied,
\* get_protein_requirements are step functions of age: for non-negative ages
\* a <= b the requirement at a is at most the requirement at b, and two ages
\* of the same band give the same value.
C12_RequirementsAreStepFunctions ==
    \A i \in Reports :
        LET h == history[i]
            a == h.report.age_months
        IN  a >= 0 =>
            \A b \in 0..MaxAgeMonths :
                LET cal_b == get_calorie_requirements(b)
                    prot_b == get_protein_requirements(b, <<>>)
                IN  /\ a <= b => h.report.calorie_requirement <= cal_b
                    /\ b <= a => cal_b <= h.report.calorie_requirement
                    /\ AgeBand(a) = AgeBand(b) => h.report.calorie_requirement = cal_b
                    /\ h.opd_reports = <<>> =>
                        /\ a <= b => h.report.protein_requirement <= prot_b
                        /\ b <= a => prot_b <= h.report.protein_requirement
                        /\ AgeBand(a) = AgeBand(b) => h.report.protein_requirement = prot_b

\* a call without a measurement returned the requirements of the band from
\* 6 months, above those of the band under 6 months
C12_Witness ==
    \E i \in Reports :
        /\ history[i].report.age_months = 6
        /\ history[i].opd_reports = <<>>
        /\ history[i].report.calorie_requirement > get_calorie_requirements(5)
        /\ history[i].report.protein_requirement > get_protein_requirements(5, <<>>)

\* months between the birth date and the date t, with no day correction
PlainMonths(date_of_birth, t) ==
    (t.year - date_of_birth.year) * 12 + (t.month - date_of_birth.month)

\* C14: calculate_age_in_months returns (today.year - dob.year) * 12 +
\* (today.month - dob.month) with no day correction, and this is the
\* age_months evaluate_intake uses for its table lookups and reports.
C14_AgeHasNoDayCorrection ==
    \A i \in Reports :
        LET h == history[i]
            months == PlainMonths(h.child.date_of_birth, h.today)
        IN  /\ h.report.age_months = months
            /\ h.report.calorie_requirement = get_calorie_requirements(months)
            /\ h.opd_reports = <<>> =>
                h.report.protein_requirement = ProteinTable(months) * 10000
            /\ Has(h.report.suggestions, GeneralTip(months))

\* a child born on the 20th, evaluated on the 15th twelve months later, was
\* reported 12 months old with the requirement of the band from 12 months
C14_Witness ==
    \E i \in Reports :
        /\ history[i].today.day < history[i].child.date_of_birth.day
        /\ history[i].report.age_months = 12
        /\ history[i].report.calorie_requirement = 1000

InvalidDateError == [raised |-> "InvalidDateError"]

\* d1 is a later date than d2
After(d1, d2) == Ordinal(d1) > Ordinal(d2)

\* C15: the age resolver fails with InvalidDateError when the birth date is
\* after the reference date; it never returns a negative age in months.
C15_FutureBirthDateRejected ==
    \A i \in DOMAIN history :
        LET h == history[i]
        IN  /\ After(h.child.date_of_birth, h.today) => h.report = InvalidDateError
            /\ "age_months" \in DOMAIN h.report => h.report.age_months >= 0

\* C17: evaluate_intake never divides by zero: for every birth date it does
\* not reject and every measurement with weight > 0 and height > 0, the
\* requirements and the expected weight it divides by are non-zero.
C17_NoDivisionByZero ==
    \A i \in DOMAIN history :
        LET h == history[i]
        IN  (\A k \in 1..Len(h.opd_reports) :
                h.opd_reports[k].weight_kg > 0 /\ h.opd_reports[k].height_cm > 0)
            => h.report # ZeroDivisionError

Tips == {"tip_under_6", "tip_6_12", "tip_1_2", "tip_general"}

\* the intake, weight, MUAC and growth-trend messages
FindingMessages ==
    {"calorie_urgent", "calorie_warning", "calorie_approaching", "calorie_met",
     "calorie_excess", "protein_urgent", "protein_warning", "protein_adequate",
     "protein_good", "no_intake", "weight_critical", "weight_below",
     "weight_above", "weight_healthy", "muac_severe", "muac_moderate",
     "growth_slow", "growth_good", "height_slow", "no_opd"}

\* the tip of the age band: under 6 months, 6-11, 12-23, 24 months and over
TipOfBand(a) ==
    CASE a < 6 -> "tip_under_6"
      [] a >= 6 /\ a <= 11 -> "tip_6_12"
      [] a >= 12 /\ a <= 23 -> "tip_1_2"
      [] a >= 24 -> "tip_general"

\* C19: every report contains exactly one general feeding tip, selected by the
\* child's age band, and it is placed after every intake, weight, MUAC and
\* growth-trend message.
C19_OneTipAfterFindings ==
    Returned =>
        LET s == report.suggestions
        IN  /\ Count(s, Tips) = 1
            /\ Has(s, TipOfBand(age_now))
            /\ \A i, j \in 1..Len(s) :
                (s[i] \in Tips /\ s[j] \in FindingMessages) => j < i

\* a child of 6 months got the tip for 6-12 months after the weight and the
\* growth-trend messages
C19_Witness ==
    /\ Returned
    /\ age_now = 6
    /\ Len(opd_reports) >= 2
    /\ Count(report.suggestions, {"growth_slow", "growth_good"}) = 1
    /\ report.suggestions[Len(report.suggestions)] = "tip_6_12"

\* 100 times the percentage total / base, rounded to the nearest integer:
\* the percentage rounded to 2 decimals, in hundredths
RoundedPercentage(total, base) == (2 * 10000 * total + base) \div (2 * base)

\* C20: every report carries a score that equals the calorie percentage
\* (mean calories / calorie requirement) rounded to 2 decimals when the
\* intake window is non-empty, and null when it is empty.
C20_ScoreIsCaloriePercentage ==
    Returned =>
        /\ "score" \in DOMAIN report
        /\ IF recent_intakes = <<>>
           THEN report.score = "null"
           ELSE report.score = RoundedPercentage(total_calories, calorie_base)

\* C13: the protein requirement reported by evaluate_intake is 1.2 g per kg
\* of the latest measurement's weight whenever at least one measurement
\* exists, and the age-banded table value only when no measurement exists.
C13_ProteinPerKilogram ==
    \A i \in Reports :
        LET h == history[i]
            n == Len(h.opd_reports)
        IN  IF n > 0
            THEN h.report.protein_requirement = 12 * h.opd_reports[n].weight_kg
            ELSE h.report.protein_requirement =
                    ProteinTable(h.report.age_months) * 10000

\* C16: invalid input is rejected before it is stored or evaluated: a child
\* whose birth date is in the future, and a measurement whose weight or
\* height is zero or negative, produce a validation error response and leave
\* the stored records unchanged, so no such row is ever stored and no such
\* measurement is ever evaluated.
C16_InvalidInputRejected ==
    /\ \A c \in db.children : ~After(c.date_of_birth, today)
    /\ \A o \in db.opd_reports : o.weight_kg > 0 /\ o.height_cm > 0
    /\ \A i \in DOMAIN history :
        /\ ~After(history[i].child.date_of_birth, history[i].today)
        /\ \A k \in 1..Len(history[i].opd_reports) :
            /\ history[i].opd_reports[k].weight_kg > 0
            /\ history[i].opd_reports[k].height_cm > 0

CalorieMessages ==
    {"calorie_urgent", "calorie_warning", "calorie_approaching", "calorie_met",
     "calorie_excess"}

ProteinMessages ==
    {"protein_urgent", "protein_warning", "protein_adequate", "protein_good"}

TrendMessages == {"growth_slow", "growth_good", "height_slow"}

ReportKeys ==
    {"suggestions", "age_months", "calorie_requirement", "protein_requirement",
     "average_intake"}

\* C25: missing data is never an error: evaluate_intake returns a full report
\* with a non-empty suggestions list; with a non-empty intake window it emits
\* exactly one calorie and one protein message, with an empty window exactly
\* one no-intake guidance message and no calorie or protein message, and with
\* no measurement exactly one no-measurement guidance message and no weight,
\* MUAC or growth-trend message.
C25_MissingDataIsNoError ==
    pc = "returned" =>
        /\ DOMAIN report = ReportKeys
        /\ report.suggestions # <<>>
        /\ IF recent_intakes # <<>>
           THEN /\ Count(report.suggestions, CalorieMessages) = 1
                /\ Count(report.suggestions, ProteinMessages) = 1
                /\ Count(report.suggestions, {"no_intake"}) = 0
           ELSE /\ Count(report.suggestions, {"no_intake"}) = 1
                /\ Count(report.suggestions, CalorieMessages \cup ProteinMessages) = 0
        /\ opd_reports = <<>> =>
            /\ Count(report.suggestions, {"no_opd"}) = 1
            /\ Count(report.suggestions,
                     WeightMessages \cup {"muac_severe", "muac_moderate"}
                     \cup TrendMessages) = 0

\* C26: the growth-trend step is time-normalized only when the two dates
\* differ: when the measurement treated as latest has the same date as, or an
\* earlier date than, the one treated as previous, no weight-gain or
\* height-gain finding is produced and no division by the time difference
\* happens.
C26_NoTrendUnlessLaterDate ==
    (pc = "returned" /\ Len(opd_reports) >= 2 /\ days_apart <= 0) =>
        /\ report # ZeroDivisionError
        /\ "suggestions" \in DOMAIN report
        /\ Count(report.suggestions, TrendMessages) = 0

\* a history whose last measurement is 30 days older than the one before it,
\* with a weight far below it, got the weight message alone
C26_Witness ==
    /\ Returned
    /\ Len(opd_reports) >= 2
    /\ days_apart = -30
    /\ weight_gained < 0
    /\ Count(report.suggestions, WeightMessages) = 1
    /\ Count(report.suggestions, TrendMessages) = 0

\* C24: evaluations of different children may run concurrently without
\* coordination: under every interleaving of two evaluate_intake calls for
\* different children, each call returns the report it returns when run alone.
C24_ConcurrentCallsAreIndependent ==
    \A t \in DOMAIN frames :
        frames[t].pc = "done" =>
            frames[t].report =
                evaluate_intake(frames[t].child, frames[t].recent_intakes,
                                frames[t].opd_reports, today)

\* the call of thread 2 returned its report after thread 1 had appended its
\* intake messages and before thread 1 went on
C24_Witness ==
    /\ Len(frames) = 2
    /\ frames[1].pc = "growth"
    /\ frames[1].suggestions # <<>>
    /\ frames[2].pc = "done"
    /\ "suggestions" \in DOMAIN frames[2].report
    /\ frames[2].report.suggestions # frames[1].suggestions
    /\ frames[1].child # frames[2].child

\* C30: after ingest_csv, every row it added to child_records carries the
\* wasted, underweight and stunted flags that simple_indicators computed for
\* that row.
C30_StoredFlagsAreComputed ==
    "dfi" \in DOMAIN response =>
        \A i \in DOMAIN response.dfi :
            \E r \in db.child_records :
                /\ r.id = response.first_id + i - 1
                /\ r.wasted = <<response.dfi[i].wasted>>
                /\ r.underweight = <<response.dfi[i].underweight>>
                /\ r.stunted = <<response.dfi[i].stunted>>

\* the call the handler of this step made, and the rows stored for its child
\* when it queried them
LastCall == history'[Len(history')]

Evaluated == Len(history') > Len(history)

StoredIntakesOf(child_id) == {r \in db'.daily_intakes : r.child_id = child_id}

StoredOpdsOf(child_id) == {r \in db'.opd_reports : r.child_id = child_id}

RowsOf(rows) == {rows[i] : i \in DOMAIN rows}

\* C21: a recommendation for a child is computed from exactly the min(7, n)
\* intake records of that child with the most recent dates, n being the
\* number of that child's stored intakes, and from no record of another child.
C21_WindowOfSevenMostRecent ==
    [][Evaluated =>
        LET stored == StoredIntakesOf(LastCall.child.id)
            used == RowsOf(LastCall.recent_intakes)
            n == Cardinality(stored)
        IN  /\ Len(LastCall.recent_intakes) = IF n < 7 THEN n ELSE 7
            /\ Cardinality(used) = Len(LastCall.recent_intakes)
            /\ used \subseteq stored
            /\ \A u \in used, r \in stored \ used :
                   Ordinal(u.date) >= Ordinal(r.date)]_vars

\* an evaluation of a child with more than 7 stored intakes used 7 of them,
\* while another child had intakes of later dates
C21_Witness ==
    /\ history # <<>>
    /\ LET h == history[Len(history)]
           stored == {r \in db.daily_intakes : r.child_id = h.child.id}
       IN  /\ "suggestions" \in DOMAIN h.report
           /\ Len(h.recent_intakes) = 7
           /\ Cardinality(stored) > 7
           /\ RowsOf(h.recent_intakes) \subseteq stored
           /\ \E r \in db.daily_intakes :
                  /\ r.child_id # h.child.id
                  /\ \A i \in DOMAIN h.recent_intakes :
                         Ordinal(r.date) > Ordinal(h.recent_intakes[i].date)

\* C22: posting two intake records for the same child and the same date
\* stores two separate records: the second neither replaces nor is merged
\* into the first, and both are counted in the mean of the next evaluation.
C22_SameDateIntakesBothStored ==
    [][(response'.handler = "add_intake_and_recommend" /\ response'.status = 201) =>
        LET stored == StoredIntakesOf(LastCall.child.id)
        IN  /\ Evaluated
            /\ db.daily_intakes \subseteq db'.daily_intakes
            /\ Cardinality(db'.daily_intakes) = Cardinality(db.daily_intakes) + 1
            /\ Cardinality(stored) <= 7 =>
                   /\ RowsOf(LastCall.recent_intakes) = stored
                   /\ Len(LastCall.recent_intakes) = Cardinality(stored)
                   /\ LastCall.report.average_intake.calories =
                          Quotient(SumOf(LastCall.recent_intakes, "total_calories"),
                                   Cardinality(stored))]_vars

\* two intakes of one child and one date, of 1000 and 1400 kcal, are both
\* stored and the evaluation of the second request has the mean 1200
C22_Witness ==
    /\ "handler" \in DOMAIN response
    /\ response.handler = "add_intake_and_recommend"
    /\ response.status = 201
    /\ \E r1 \in db.daily_intakes, r2 \in db.daily_intakes :
        /\ r1.id # r2.id
        /\ r1.child_id = r2.child_id
        /\ r1.date = r2.date
        /\ r1.total_calories = 1000
        /\ r2.total_calories = 1400
        /\ child.id = r1.child_id
    /\ Len(recent_intakes) = 2
    /\ report.average_intake.calories = Frac(1200, 1)

\* C23: a recommend request leaves the stored children, intake records and
\* measurement records unchanged, and its result depends only on the records
\* stored at the time of the call, not on any earlier evaluation.
C23_RecommendStoresNothing ==
    [][response'.handler = "recommend" =>
        /\ db' = db
        /\ Evaluated =>
               \E i \in IntakeQueries(LastCall.child.id),
                  o \in OpdQueries(LastCall.child.id) :
                   /\ LastCall.recent_intakes = i
                   /\ LastCall.opd_reports = o
                   /\ LastCall.report = evaluate_intake(LastCall.child, i, o, today)]_vars

\* a recommend request that followed an evaluation with another report
C23_Witness ==
    /\ "handler" \in DOMAIN response
    /\ response.handler = "recommend"
    /\ response.status = 200
    /\ Len(history) = 2
    /\ "suggestions" \in DOMAIN history[1].report
    /\ history[2].report = report
    /\ history[2].report # history[1].report

\* C27: whenever add_intake_and_recommend or add_opd_and_recommend answers
\* with an error (400), the stored intake and measurement records are the
\* same as before the request.
C27_ErrorLeavesRecordsUnchanged ==
    [][(/\ response'.handler \in {"add_intake_and_recommend", "add_opd_and_recommend"}
        /\ response'.status = 400) =>
            /\ db'.daily_intakes = db.daily_intakes
            /\ db'.opd_reports = db.opd_reports]_vars

\* C28: every stored intake record and every stored measurement record
\* references a child that still exists.
C28_RecordsReferenceStoredChild ==
    \A r \in db.daily_intakes \cup db.opd_reports :
        \E c \in db.children : c.id = r.child_id

\* a child that had an intake when it was evaluated was deleted, and the
\* intake of another child is still stored
C28_Witness ==
    /\ "handler" \in DOMAIN response
    /\ response.handler = "delete_child"
    /\ response.status = 200
    /\ db.daily_intakes # {}
    /\ \E i \in DOMAIN history :
        /\ history[i].recent_intakes # <<>>
        /\ \A c \in db.children : c.id # history[i].child.id

\* C29: the measurement an evaluation treats as latest has the greatest date
\* among the child's stored measurements and the one it treats as previous
\* has the next greatest, whatever order the measurements were posted in.
C29_LatestMeasurementByDate ==
    [][Evaluated =>
        LET stored == StoredOpdsOf(LastCall.child.id)
            opds == LastCall.opd_reports
            n == Len(opds)
        IN  /\ n = Cardinality(stored)
            /\ RowsOf(opds) = stored
            /\ n >= 1 => \A r \in stored : Ordinal(r.date) <= Ordinal(opds[n].date)
            /\ n >= 2 => \A r \in stored \ {opds[n]} :
                             Ordinal(r.date) <= Ordinal(opds[n - 1].date)]_vars

\* the measurement of 31 January was posted first and the one of 1 January
\* after it: the evaluation took the one of 31 January as the latest
C29_Witness ==
    /\ pc = "returned"
    /\ Len(opd_reports) = 2
    /\ opd_reports[2].date = Jan31
    /\ opd_reports[1].date = Jan01
    /\ opd_reports[2].id < opd_reports[1].id
    /\ "suggestions" \in DOMAIN report

====
